---- MODULE Spec2Model ----
(***************************************************************************)
(* A model of plotter-ascii.py: the metric extraction, the per-metric      *)
(* rendering loop of generate_ascii_graphs / main, and the text            *)
(* post-processing of _post_process_ascii_output.                          *)
(*                                                                         *)
(* A text row is a sequence of one-character strings; a grid is a sequence *)
(* of rows (raw_output.split('\n')).  Row and column indices held in       *)
(* variables are 0-based as in the source, with -1 for "not found".        *)
(* The only whitespace character of the alphabet is the blank, so \s and   *)
(* str.strip() act on blanks.  A configured glyph is one character.        *)
(***************************************************************************)
EXTENDS Integers, Sequences, FiniteSets, TLC

\* ------------------------------------------------------------------------
\* Bounds of the model
\* ------------------------------------------------------------------------
MaxRows == 3
MaxIntervals == 2

\* ------------------------------------------------------------------------
\* Program constants
\* ------------------------------------------------------------------------
MinBoxLen == 50
FallbackBorderLength == 60
TickDigitWindow == 15
MaxTickSpaces == 2
PrecisionDigits == 6

\* ------------------------------------------------------------------------
\* String helpers (str methods used by the source)
\* ------------------------------------------------------------------------
SetMin(S) == CHOOSE x \in S : \A y \in S : x <= y
SetMax(S) == CHOOSE x \in S : \A y \in S : x >= y

Rep(c, n) == [i \in 1..n |-> c]

Digits == {"0", "1", "2", "3", "4", "5", "6", "7", "8", "9"}

HasChar(line, c) == \E i \in 1..Len(line) : line[i] = c

Contains(line, phrase) ==
    \E i \in 0..(Len(line) - Len(phrase)) :
        \A k \in 1..Len(phrase) : line[i + k] = phrase[k]

Replace(line, a, b) == [i \in 1..Len(line) |-> IF line[i] = a THEN b ELSE line[i]]

Find(line, c) ==
    IF HasChar(line, c) THEN SetMin({i \in 1..Len(line) : line[i] = c}) - 1 ELSE -1

RFind(line, c) ==
    IF HasChar(line, c) THEN SetMax({i \in 1..Len(line) : line[i] = c}) - 1 ELSE -1

Strip(line) ==
    LET idx == {i \in 1..Len(line) : line[i] # " "}
    IN  IF idx = {} THEN <<>> ELSE SubSeq(line, SetMin(idx), SetMax(idx))

Count(line, c) == Cardinality({i \in 1..Len(line) : line[i] = c})

RECURSIVE SkipWhile(_, _, _)
SkipWhile(s, i, class) ==
    IF i <= Len(s) /\ s[i] \in class THEN SkipWhile(s, i + 1, class) ELSE i

\* ------------------------------------------------------------------------
\* Pass 1: bounding-box detection
\* ------------------------------------------------------------------------
\* mutant: every long row qualifies, with or without '|'
QualifiesByLength(line) == Len(line) > MinBoxLen

QualifiesAsBox(line) == HasChar(line, "|") /\ Len(line) > MinBoxLen

BoxRows(ls) == {i \in 0..(Len(ls) - 1) : QualifiesAsBox(ls[i + 1])}

GraphStart(ls) == IF BoxRows(ls) = {} THEN -1 ELSE SetMin(BoxRows(ls))

GraphEnd(ls) == IF BoxRows(ls) = {} THEN -1 ELSE SetMax(BoxRows(ls))

\* ------------------------------------------------------------------------
\* Pass 2: glyph substitution and decoration stripping
\* ------------------------------------------------------------------------
PhraseNetwork == <<"N", "e", "t", "w", "o", "r", "k">>
PhraseMeasurement ==
    <<"M", "e", "a", "s", "u", "r", "e", "m", "e", "n", "t", " ", "D", "a", "t", "a">>
PhraseXAxis == <<"X", " ", "A", "x", "i", "s", ":">>
PhraseYAxis == <<"Y", " ", "A", "x", "i", "s", ":">>

ProtectedPhrases == {PhraseNetwork, PhraseMeasurement, PhraseXAxis, PhraseYAxis}

IsProtected(line) == \E p \in ProtectedPhrases : Contains(line, p)

SubstPrimary(line, c) ==
    IF HasChar(line, "*") /\ c.plot_char_primary # "*"
    THEN Replace(line, "*", c.plot_char_primary)
    ELSE line

SubstSecondary(line, c) ==
    IF HasChar(line, "A") /\ c.plot_char_secondary # "A"
    THEN Replace(line, "A", c.plot_char_secondary)
    ELSE line

StripDecoration(line) ==
    LET l3 == Replace(Replace(line, "-", " "), "_", " ")
    IN  IF HasChar(l3, "+") THEN Replace(l3, "+", " ") ELSE l3

\* mutant: protected rows are not skipped
SubstLineUnprotected(line, c) ==
    StripDecoration(SubstSecondary(SubstPrimary(line, c), c))

SubstLine(line, c) ==
    IF IsProtected(line)
    THEN line
    ELSE StripDecoration(SubstSecondary(SubstPrimary(line, c), c))

SubstPass(ls, c) == [i \in 1..Len(ls) |-> SubstLine(ls[i], c)]

\* ------------------------------------------------------------------------
\* Pass 3: border reconstruction
\* ------------------------------------------------------------------------
PipeRows(ls, gs, ge) == {i \in gs..ge : HasChar(ls[i + 1], "|")}

TypicalPipeStart(ls, gs, ge) ==
    IF PipeRows(ls, gs, ge) = {} THEN -1
    ELSE Find(ls[SetMin(PipeRows(ls, gs, ge)) + 1], "|")

TypicalPipeEnd(ls, gs, ge) ==
    IF PipeRows(ls, gs, ge) = {} THEN -1
    ELSE RFind(ls[SetMin(PipeRows(ls, gs, ge)) + 1], "|")

BorderLength(tps, tpe) ==
    IF tps # -1 /\ tpe # -1 THEN tpe - tps - 1 ELSE FallbackBorderLength

\* re.match(r'^\s*\d+\s+\d+\s+\d+', s): the character classes are disjoint,
\* so the only possible match takes each run whole.
MatchesScale(s) ==
    LET a == SkipWhile(s, 1, {" "})
        b == SkipWhile(s, a, Digits)
        c == SkipWhile(s, b, {" "})
        d == SkipWhile(s, c, Digits)
        e == SkipWhile(s, d, {" "})
        f == SkipWhile(s, e, Digits)
    IN  b > a /\ c > b /\ d > c /\ e > d /\ f > e

StartsLikeNumber(s) ==
    \/ s[1] \in Digits
    \/ (Len(s) > 1 /\ s[1] = "0" /\ s[2] = ".")
    \/ s[1] \in (Digits \ {"0"})

IsScientific(s) ==
    \/ Contains(s, <<"e", " ">>)
    \/ Contains(s, <<"e", "+">>)
    \/ Contains(s, <<"e", "-">>)

IsTickRow(line) ==
    LET s == Strip(line)
    IN  /\ s # <<>>
        /\ StartsLikeNumber(s)
        /\ \/ IsScientific(s)
           \/ /\ Count(s, " ") <= MaxTickSpaces
              /\ \E i \in 1..TickDigitWindow : i <= Len(s) /\ s[i] \in Digits
              /\ ~MatchesScale(s)

TickRows(ls) == {i \in 0..(Len(ls) - 1) : IsTickRow(ls[i + 1])}

FirstYLine(ls) == IF TickRows(ls) = {} THEN -1 ELSE SetMin(TickRows(ls))

LastYLine(ls) == IF TickRows(ls) = {} THEN -1 ELSE SetMax(TickRows(ls))

\* re.search(r'^\s*([0-9.e+\-\s]+)', line): \s is inside the class, so there
\* is a match exactly when the line starts with a character of the class, and
\* group(1).strip() is the stripped maximal leading run of the class.
NumClass == Digits \cup {".", "e", "+", "-", " "}

HasNumericLead(line) == SkipWhile(line, 1, NumClass) > 1

YValue(line) == Strip(SubSeq(line, 1, SkipWhile(line, 1, NumClass) - 1))

Border(bl) == <<"+">> \o Rep("-", bl) \o <<"+">>

BorderLine(line, tps, bl) ==
    LET y_value == YValue(line)
        padding_needed == (tps - 1) - Len(y_value)
    IN  IF padding_needed > 0
        THEN Rep(" ", padding_needed) \o y_value \o <<" ">> \o Border(bl)
        ELSE y_value \o <<" ">> \o Border(bl)

RewriteTick(ls, idx, tps, bl) ==
    IF idx < Len(ls) /\ HasNumericLead(ls[idx + 1])
    THEN [ls EXCEPT ![idx + 1] = BorderLine(ls[idx + 1], tps, bl)]
    ELSE ls

BorderApplies(ls, gs, ge) ==
    /\ gs # -1 /\ ge # -1
    /\ FirstYLine(ls) # -1 /\ LastYLine(ls) # -1
    /\ TypicalPipeStart(ls, gs, ge) # -1

BorderPass(ls, gs, ge) ==
    IF BorderApplies(ls, gs, ge)
    THEN LET tps == TypicalPipeStart(ls, gs, ge)
             bl  == BorderLength(tps, TypicalPipeEnd(ls, gs, ge))
         IN  RewriteTick(RewriteTick(ls, FirstYLine(ls), tps, bl),
                         LastYLine(ls), tps, bl)
    ELSE ls

\* ------------------------------------------------------------------------
\* Pass 4: vertical axis-title overlay
\* ------------------------------------------------------------------------
OverlayEnabled(c) ==
    /\ c.show_ylabel_inline
    /\ c.ylabel_rotation = "vertical"
    /\ c.ylabel_position = "left"

YChars(label) == Replace(label, " ", "_")

\* mutant: the half of the box height is rounded up
MiddleStartRoundedUp(gs, ge, n) == gs + ((ge - gs + 1) \div 2) - (n \div 2)

MiddleStart(gs, ge, n) == gs + ((ge - gs) \div 2) - (n \div 2)

\* mutant: the label is laid out bottom to top
OverlayLineReversed(ls, idx, gs, ge, y_chars) ==
    LET ms == MiddleStart(gs, ge, Len(y_chars))
    IN  IF ms <= idx /\ idx < ms + Len(y_chars)
        THEN <<y_chars[Len(y_chars) - (idx - ms)], " ">> \o ls[idx + 1]
        ELSE IF gs <= idx /\ idx <= ge
             THEN <<" ", " ">> \o ls[idx + 1]
             ELSE ls[idx + 1]

OverlayLine(ls, idx, gs, ge, y_chars) ==
    LET ms == MiddleStart(gs, ge, Len(y_chars))
    IN  IF ms <= idx /\ idx < ms + Len(y_chars)
        THEN <<y_chars[idx - ms + 1], " ">> \o ls[idx + 1]
        ELSE IF gs <= idx /\ idx <= ge
             THEN <<" ", " ">> \o ls[idx + 1]
             ELSE ls[idx + 1]

OverlayPass(ls, gs, ge, label, c) ==
    IF OverlayEnabled(c)
    THEN [i \in 1..Len(ls) |-> OverlayLine(ls, i - 1, gs, ge, YChars(label))]
    ELSE ls

\* ------------------------------------------------------------------------
\* Pass 5: below-chart metadata
\* ------------------------------------------------------------------------
RECURSIVE TrimTrailingBlank(_)
TrimTrailingBlank(ls) ==
    IF Len(ls) > 0 /\ Strip(ls[Len(ls)]) = <<>>
    THEN TrimTrailingBlank(SubSeq(ls, 1, Len(ls) - 1))
    ELSE ls

\* mutant: the trailing blank rows are kept
BelowPassUntrimmed(ls, xl, yl, c) ==
    IF c.show_axis_info_below
    THEN ls \o << <<>>, PhraseXAxis \o <<" ">> \o xl, PhraseYAxis \o <<" ">> \o yl >>
    ELSE ls

BelowPass(ls, xl, yl, c) ==
    IF c.show_axis_info_below
    THEN TrimTrailingBlank(ls)
         \o << <<>>, PhraseXAxis \o <<" ">> \o xl, PhraseYAxis \o <<" ">> \o yl >>
    ELSE ls

\* ------------------------------------------------------------------------
\* _post_process_ascii_output as one function of its arguments
\* ------------------------------------------------------------------------
PostProcess(rawLines, yl, xl, c) ==
    LET gs == GraphStart(rawLines)
        ge == GraphEnd(rawLines)
        l2 == SubstPass(rawLines, c)
        l3 == BorderPass(l2, gs, ge)
        l4 == OverlayPass(l3, gs, ge, yl, c)
    IN  BelowPass(l4, xl, yl, c)

\* ------------------------------------------------------------------------
\* Measurement records and extract_performance_metrics
\* ------------------------------------------------------------------------
\* A stream sample.  sender is "true", "false" or "absent" (the key is
\* missing); has_lost / has_jitter say whether the optional key is present.
\* Numbers are in tenths (lost_percent 5 is 0.5, jitter_ms 23 is 2.3).
Sample(dir, end, bytes, hasLost, lost, hasJitter, jit) ==
    [sender |-> dir, end |-> end, bytes |-> bytes,
     has_lost |-> hasLost, lost_percent |-> lost,
     has_jitter |-> hasJitter, jitter_ms |-> jit]

IsSender(s) == s.sender = "true"

\* mutant: a plain else instead of 'elif ... is False'
IsReceiverOrUnknown(s) == s.sender # "true"

IsReceiver(s) == s.sender = "false"

\* mutant: the default of a missing lost_percent is 1
LostOrOne(s) == IF s.has_lost THEN s.lost_percent ELSE 1

LostOrZero(s) == IF s.has_lost THEN s.lost_percent ELSE 0

JitterOrZero(s) == IF s.has_jitter THEN s.jitter_ms ELSE 0

RECURSIVE Flatten(_)
Flatten(intervals) ==
    IF intervals = <<>> THEN <<>>
    ELSE Head(intervals).streams \o Flatten(Tail(intervals))

ExtractMetrics(intervals) ==
    LET all == Flatten(intervals)
        snd == SelectSeq(all, IsSender)
        rcv == SelectSeq(all, LAMBDA s : ~IsSender(s) /\ IsReceiver(s))
    IN  [sender_times   |-> [i \in 1..Len(snd) |-> snd[i].end],
         sender_bytes   |-> [i \in 1..Len(snd) |-> snd[i].bytes],
         receiver_times |-> [i \in 1..Len(rcv) |-> rcv[i].end],
         receiver_bytes |-> [i \in 1..Len(rcv) |-> rcv[i].bytes],
         packet_loss    |-> [i \in 1..Len(rcv) |-> LostOrZero(rcv[i])],
         jitter         |-> [i \in 1..Len(rcv) |-> JitterOrZero(rcv[i])]]

EmptySeries == ExtractMetrics(<<>>)

\* ------------------------------------------------------------------------
\* generate_ascii_graphs: the datasets and their files
\* ------------------------------------------------------------------------
\* mutant: the first two datasets are listed the other way round
MetricsReordered == <<"receiverBytes", "senderBytes", "packetLoss", "jitter">>

Metrics == <<"senderBytes", "receiverBytes", "packetLoss", "jitter">>

MetricSet == {Metrics[i] : i \in 1..Len(Metrics)}

\* "Network Throughput: Sender Bytes Over Time"
TitleSenderBytes ==
    <<"N", "e", "t", "w", "o", "r", "k", " ", "T", "h", "r", "o", "u", "g",
      "h", "p", "u", "t", ":", " ", "S", "e", "n", "d", "e", "r", " ", "B",
      "y", "t", "e", "s", " ", "O", "v", "e", "r", " ", "T", "i", "m", "e">>

\* "Network Throughput: Receiver Bytes Over Time"
TitleReceiverBytes ==
    <<"N", "e", "t", "w", "o", "r", "k", " ", "T", "h", "r", "o", "u", "g",
      "h", "p", "u", "t", ":", " ", "R", "e", "c", "e", "i", "v", "e", "r",
      " ", "B", "y", "t", "e", "s", " ", "O", "v", "e", "r", " ", "T", "i",
      "m", "e">>

\* "Network Quality: Packet Loss Percentage Over Time"
TitlePacketLoss ==
    <<"N", "e", "t", "w", "o", "r", "k", " ", "Q", "u", "a", "l", "i", "t",
      "y", ":", " ", "P", "a", "c", "k", "e", "t", " ", "L", "o", "s", "s",
      " ", "P", "e", "r", "c", "e", "n", "t", "a", "g", "e", " ", "O", "v",
      "e", "r", " ", "T", "i", "m", "e">>

\* "Network Quality: Jitter Measurements Over Time"
TitleJitter ==
    <<"N", "e", "t", "w", "o", "r", "k", " ", "Q", "u", "a", "l", "i", "t",
      "y", ":", " ", "J", "i", "t", "t", "e", "r", " ", "M", "e", "a", "s",
      "u", "r", "e", "m", "e", "n", "t", "s", " ", "O", "v", "e", "r", " ",
      "T", "i", "m", "e">>

\* "Bytes Transmitted"
YLabelSenderBytes ==
    <<"B", "y", "t", "e", "s", " ", "T", "r", "a", "n", "s", "m", "i", "t",
      "t", "e", "d">>

\* "Bytes Received"
YLabelReceiverBytes ==
    <<"B", "y", "t", "e", "s", " ", "R", "e", "c", "e", "i", "v", "e", "d">>

\* "Packet Loss (%)"
YLabelPacketLoss ==
    <<"P", "a", "c", "k", "e", "t", " ", "L", "o", "s", "s", " ", "(", "%",
      ")">>

\* "Jitter (ms)"
YLabelJitter ==
    <<"J", "i", "t", "t", "e", "r", " ", "(", "m", "s", ")">>

\* "Time (seconds)"
TimeSeconds ==
    <<"T", "i", "m", "e", " ", "(", "s", "e", "c", "o", "n", "d", "s", ")">>

XData(m, s) == IF m = "senderBytes" THEN s.sender_times ELSE s.receiver_times

YData(m, s) ==
    CASE m = "senderBytes"   -> s.sender_bytes
      [] m = "receiverBytes" -> s.receiver_bytes
      [] m = "packetLoss"    -> s.packet_loss
      [] m = "jitter"        -> s.jitter

TitleOf(m) ==
    CASE m = "senderBytes"   -> TitleSenderBytes
      [] m = "receiverBytes" -> TitleReceiverBytes
      [] m = "packetLoss"    -> TitlePacketLoss
      [] m = "jitter"        -> TitleJitter

YLabelOf(m) ==
    CASE m = "senderBytes"   -> YLabelSenderBytes
      [] m = "receiverBytes" -> YLabelReceiverBytes
      [] m = "packetLoss"    -> YLabelPacketLoss
      [] m = "jitter"        -> YLabelJitter

\* mutant: the flags of the two quality metrics are swapped
TrackedSwapped(m, c) ==
    CASE m = "senderBytes"   -> c.track_sender_bytes
      [] m = "receiverBytes" -> c.track_receiver_bytes
      [] m = "packetLoss"    -> c.track_jitter
      [] m = "jitter"        -> c.track_packet_loss

Tracked(m, c) ==
    CASE m = "senderBytes"   -> c.track_sender_bytes
      [] m = "receiverBytes" -> c.track_receiver_bytes
      [] m = "packetLoss"    -> c.track_packet_loss
      [] m = "jitter"        -> c.track_jitter

Datasets(c) == SelectSeq(Metrics, LAMBDA m : Tracked(m, c))

\* mutant: the empty-series test is missing
NoDataNever(m, s) == FALSE

NoData(m, s) == XData(m, s) = <<>> \/ YData(m, s) = <<>>

\* '{:.6f}'.format(v): the value printed with precision_digits decimals
FormatFixed(v) == [value |-> v, decimals |-> PrecisionDigits]

\* zip(x_data, y_data), one formatted pair per line
DataFileContent(x_data, y_data) ==
    LET n == IF Len(x_data) <= Len(y_data) THEN Len(x_data) ELSE Len(y_data)
    IN  [i \in 1..n |-> <<FormatFixed(x_data[i]), FormatFixed(y_data[i])>>]

GnuplotScript(m, c) ==
    [glyphs    |-> <<c.plot_char_primary, c.plot_char_secondary>>,
     title     |-> TitleOf(m),
     y_label   |-> YLabelOf(m),
     data_file |-> <<m, "dat">>]

\* except subprocess.CalledProcessError / except FileNotFoundError
\* mutant: the FileNotFoundError handler is missing
CaughtOnlyNonZero(outcome) == outcome = "nonzero"

CaughtByExecute(outcome) == outcome \in {"nonzero", "notfound"}

\* ------------------------------------------------------------------------
\* The external engine: what its text terminal prints for a script and the
\* data file the script names (one '*' per data line on the first plot row)
\* ------------------------------------------------------------------------
EngineOutcomes == {"ok", "nonzero", "notfound"}

EngineOutput(script, dat) ==
    LET k == IF Len(dat) <= 46 THEN Len(dat) ELSE 46
    IN  << <<" ", " ", " ", " ">> \o script.title,
           <<" ", " ", "1", "e", "+", "0", "3", " ", "+">> \o Rep("-", 46) \o <<"+">>,
           Rep(" ", 8) \o <<"|">> \o Rep("*", k) \o Rep(" ", 46 - k) \o <<"|">>,
           Rep(" ", 8) \o <<"|">> \o Rep(" ", 46) \o <<"|">>,
           <<" ", " ", " ", " ", " ", " ", "0", " ", "+">> \o Rep("-", 46) \o <<"+">>,
           Rep(" ", 8) \o <<"0">> \o Rep(" ", 22) \o <<"5">> \o Rep(" ", 22) \o <<"1", "0">>,
           <<>> >>

\* ------------------------------------------------------------------------
\* _load_json_data and main: what each kind of input file leads to
\* ------------------------------------------------------------------------
\* mutant: the 'intervals' check is missing
LoadResultUnchecked(file) ==
    CASE file.kind = "missing"      -> "file_not_found"
      [] file.kind = "malformed"    -> "invalid_json"
      [] file.kind = "no_intervals" -> "loaded"
      [] file.kind = "scalar"       -> "unhandled"
      [] file.kind = "record"       -> "loaded"

\* kind: "missing" (no such file), "malformed" (not JSON), "no_intervals"
\* (an object without the key), "scalar" (a JSON number: the membership test
\* raises TypeError, which only main catches), "record".
LoadResult(file) ==
    CASE file.kind = "missing"      -> "file_not_found"
      [] file.kind = "malformed"    -> "invalid_json"
      [] file.kind = "no_intervals" -> "missing_intervals"
      [] file.kind = "scalar"       -> "unhandled"
      [] file.kind = "record"       -> "loaded"

\* ------------------------------------------------------------------------
\* Inputs of the post-processor: rows an engine's text terminal can print
\* ------------------------------------------------------------------------
\* "  1e+07 +-*---...---+": top border with a scientific tick label
RowTop == <<" ", " ", "1", "e", "+", "0", "7", " ", "+", "-", "*">> \o Rep("-", 44) \o <<"+">>

\* "        | *A-+_   ...   |": a plot row, border columns 8 and 55
RowBox == Rep(" ", 8) \o <<"|", " ", "*", "A", "-", "+", "_">> \o Rep(" ", 40) \o <<"|">>

\* "      0 +------...---+": bottom border with a plain tick label
RowBottom == <<" ", " ", " ", " ", " ", " ", "0", " ", "+">> \o Rep("-", 46) \o <<"+">>

\* "  |Network*A   ...   |": a plot row that carries a protected phrase,
\* border columns 2 and 51
RowBoxTitle == <<" ", " ", "|">> \o PhraseNetwork \o <<"*", "A">> \o Rep(" ", 39) \o <<"|">>

\* "": an empty row (the engine's output ends with a newline)
RowBlank == <<>>

\* "1 Y Axis: -": a protected row that starts like a tick label
RowTickNote == <<"1", " ">> \o PhraseYAxis \o <<" ", "-">>

RowPool == {RowTop, RowBox, RowBottom, RowBoxTitle, RowBlank, RowTickNote}

Grids == UNION {[1..n -> RowPool] : n \in 1..MaxRows}

\* "        0          5         10": the x-axis ruler below the chart
RowRuler ==
    Rep(" ", 8) \o <<"0">> \o Rep(" ", 10) \o <<"5">> \o Rep(" ", 9) \o <<"1", "0">>

\* "  0 5 10": a ruler of a very narrow chart
RowRulerTight == <<" ", " ", "0", " ", "5", " ", "1", "0">>

\* "  0.5 1 1.5": a narrow ruler with decimal values
RowRulerDecimal == <<" ", " ", "0", ".", "5", " ", "1", " ", "1", ".", "5">>

\* "  0   5e+05   1e+06": a ruler with large values
RowRulerSci ==
    <<" ", " ", "0", " ", " ", " ", "5", "e", "+", "0", "5", " ", " ", " ",
      "1", "e", "+", "0", "6">>

\* "  -+_ ": a row that holds decoration only
RowDashes == <<" ", " ", "-", "+", "_", " ">>

AxisRowPool ==
    {RowTop, RowBox, RowBottom, RowRuler, RowRulerTight, RowRulerDecimal,
     RowRulerSci, RowDashes}

AxisGrids == UNION {[1..n -> AxisRowPool] : n \in 1..MaxRows}

YLabels == { <<"k", "B">>, <<"a", " ", "b">>, <<"p", "_", "q", "s">> }

XLabel == <<"T", "i", "m", "e">>

Profile(primary, secondary, inline, rotation, position, below) ==
    [plot_char_primary |-> primary, plot_char_secondary |-> secondary,
     show_ylabel_inline |-> inline, ylabel_rotation |-> rotation,
     ylabel_position |-> position, show_axis_info_below |-> below,
     verbose_output |-> TRUE,
     track_sender_bytes |-> TRUE, track_receiver_bytes |-> TRUE,
     track_packet_loss |-> TRUE, track_jitter |-> TRUE]

DefaultProfile == Profile("*", "A", TRUE, "vertical", "left", FALSE)

Profiles ==
    { DefaultProfile,
      Profile("#", "B", TRUE, "vertical", "left", TRUE),
      Profile("+", "A", FALSE, "vertical", "left", FALSE),
      Profile("A", "B", TRUE, "horizontal", "left", TRUE),
      Profile("*", "B", TRUE, "vertical", "right", FALSE) }

AxisProfiles ==
    { Profile("#", "B", TRUE, "vertical", "left", TRUE),
      Profile("*", "A", FALSE, "vertical", "left", FALSE),
      Profile("*", "A", FALSE, "vertical", "left", TRUE) }

\* ------------------------------------------------------------------------
\* State
\* ------------------------------------------------------------------------
VARIABLES
    cfg,                 \* the configuration profile (ConfigManager)
    ppc,                 \* position inside _post_process_ascii_output
    raw,                 \* raw_output.split('\n')
    lines,               \* the rows being rewritten
    y_label, x_label,    \* arguments of _post_process_ascii_output
    graph_start, graph_end,
    typical_pipe_start, typical_pipe_end, border_length,
    first_y_line, last_y_line,
    pc,                  \* position inside main / generate_ascii_graphs
    inputFile,           \* the file at json_path
    data,                \* self.data["intervals"]
    series,              \* result of extract_performance_metrics
    datasets,            \* the enabled datasets, in order
    dataset_idx,                 \* 0-based index of the loop over datasets
    script,              \* the script of the metric being rendered
    stdout,              \* result.stdout of the engine, split into rows
    rendered,            \* return value of _execute_gnuplot for this metric
    successful_graphs,
    disk,                \* names of the files in the output directory
    written,             \* names of the files written by this run
    datafile, artifact,  \* contents of the .dat and .txt files, by metric
    engineCalls,         \* engine invocations of this run, by metric
    engineFailed,        \* metrics whose engine invocation failed in this run
    log,                 \* what the run printed
    exitCode,            \* process exit status, -1 while running
    prev                 \* summary of the previous run on the same directory

ppvars == <<ppc, raw, lines, y_label, x_label, graph_start, graph_end,
            typical_pipe_start, typical_pipe_end, border_length,
            first_y_line, last_y_line>>

runvars == <<pc, inputFile, data, series, datasets, dataset_idx, script, stdout, rendered,
             successful_graphs, disk, written, datafile, artifact, engineCalls,
             engineFailed, log, exitCode, prev>>

vars == <<cfg, ppvars, runvars>>

NoGrid == <<>>

NoScript == [glyphs |-> <<"", "">>, title |-> <<>>, y_label |-> <<>>, data_file |-> <<"", "">>]

NoRun ==
    [ran |-> FALSE, cfg |-> DefaultProfile, written |-> {},
     artifact |-> [m \in MetricSet |-> NoGrid], engineFailed |-> {}]

\* the variables a run of main starts from
RunFresh ==
    /\ data = <<>>
    /\ series = EmptySeries
    /\ datasets = <<>>
    /\ dataset_idx = 0
    /\ script = NoScript
    /\ stdout = NoGrid
    /\ rendered = FALSE
    /\ successful_graphs = 0
    /\ written = {}
    /\ engineCalls = [m \in MetricSet |-> 0]
    /\ engineFailed = {}
    /\ log = <<>>
    /\ exitCode = -1

EmptyDirectory ==
    /\ disk = {}
    /\ datafile = [m \in MetricSet |-> <<>>]
    /\ artifact = [m \in MetricSet |-> NoGrid]
    /\ prev = NoRun

PostProcessorIdle ==
    /\ ppc = "idle"
    /\ raw = NoGrid /\ lines = NoGrid
    /\ y_label = <<>> /\ x_label = <<>>
    /\ graph_start = -1 /\ graph_end = -1
    /\ typical_pipe_start = -1 /\ typical_pipe_end = -1 /\ border_length = -1
    /\ first_y_line = -1 /\ last_y_line = -1

RunIdle ==
    /\ pc = "idle"
    /\ inputFile = [kind |-> "missing", intervals |-> <<>>]
    /\ RunFresh
    /\ EmptyDirectory

\* ------------------------------------------------------------------------
\* _post_process_ascii_output, pass by pass
\* ------------------------------------------------------------------------
InitPP ==
    /\ cfg \in Profiles
    /\ raw \in Grids
    /\ lines = raw
    /\ y_label \in YLabels
    /\ x_label = XLabel
    /\ ppc = "detect"
    /\ graph_start = -1 /\ graph_end = -1
    /\ typical_pipe_start = -1 /\ typical_pipe_end = -1 /\ border_length = -1
    /\ first_y_line = -1 /\ last_y_line = -1
    /\ RunIdle

DetectBox ==
    /\ ppc = "detect"
    /\ graph_start' = GraphStart(lines)
    /\ graph_end' = GraphEnd(lines)
    /\ ppc' = "substitute"
    /\ UNCHANGED <<cfg, raw, lines, y_label, x_label, typical_pipe_start,
                   typical_pipe_end, border_length, first_y_line, last_y_line>>
    /\ UNCHANGED runvars

Substitute ==
    /\ ppc = "substitute"
    /\ lines' = SubstPass(lines, cfg)
    /\ ppc' = "border"
    /\ UNCHANGED <<cfg, raw, y_label, x_label, graph_start, graph_end,
                   typical_pipe_start, typical_pipe_end, border_length,
                   first_y_line, last_y_line>>
    /\ UNCHANGED runvars

ReconstructBorder ==
    /\ ppc = "border"
    /\ IF graph_start # -1 /\ graph_end # -1
       THEN /\ typical_pipe_start' = TypicalPipeStart(lines, graph_start, graph_end)
            /\ typical_pipe_end' = TypicalPipeEnd(lines, graph_start, graph_end)
            /\ border_length' = BorderLength(typical_pipe_start', typical_pipe_end')
            /\ first_y_line' = FirstYLine(lines)
            /\ last_y_line' = LastYLine(lines)
       ELSE UNCHANGED <<typical_pipe_start, typical_pipe_end, border_length,
                        first_y_line, last_y_line>>
    /\ lines' = BorderPass(lines, graph_start, graph_end)
    /\ ppc' = "overlay"
    /\ UNCHANGED <<cfg, raw, y_label, x_label, graph_start, graph_end>>
    /\ UNCHANGED runvars

Overlay ==
    /\ ppc = "overlay"
    /\ lines' = OverlayPass(lines, graph_start, graph_end, y_label, cfg)
    /\ ppc' = "below"
    /\ UNCHANGED <<cfg, raw, y_label, x_label, graph_start, graph_end,
                   typical_pipe_start, typical_pipe_end, border_length,
                   first_y_line, last_y_line>>
    /\ UNCHANGED runvars

Below ==
    /\ ppc = "below"
    /\ lines' = BelowPass(lines, x_label, y_label, cfg)
    /\ ppc' = "done"
    /\ UNCHANGED <<cfg, raw, y_label, x_label, graph_start, graph_end,
                   typical_pipe_start, typical_pipe_end, border_length,
                   first_y_line, last_y_line>>
    /\ UNCHANGED runvars

NextPP == DetectBox \/ Substitute \/ ReconstructBorder \/ Overlay \/ Below

SpecPP == InitPP /\ [][NextPP]_vars

\* the same passes on grids that hold x-axis rulers and decoration-only rows
InitPPAxis ==
    /\ cfg \in AxisProfiles
    /\ raw \in AxisGrids
    /\ lines = raw
    /\ y_label \in {<<"k", "B">>, <<"a", " ", "b">>}
    /\ x_label = XLabel
    /\ ppc = "detect"
    /\ graph_start = -1 /\ graph_end = -1
    /\ typical_pipe_start = -1 /\ typical_pipe_end = -1 /\ border_length = -1
    /\ first_y_line = -1 /\ last_y_line = -1
    /\ RunIdle

SpecPPAxis == InitPPAxis /\ [][NextPP]_vars

\* ------------------------------------------------------------------------
\* Inputs of a run
\* ------------------------------------------------------------------------
SampleSender == Sample("true", 1, 1000, FALSE, 0, FALSE, 0)
SampleReceiver == Sample("false", 1, 900, TRUE, 5, TRUE, 23)
SampleReceiverBare == Sample("false", 2, 800, FALSE, 0, FALSE, 0)
SampleUnknown == Sample("absent", 2, 700, FALSE, 0, FALSE, 0)
SampleSenderLossy == Sample("true", 3, 1100, TRUE, 7, TRUE, 9)

Samples ==
    {SampleSender, SampleReceiver, SampleReceiverBare, SampleUnknown, SampleSenderLossy}

StreamLists ==
    {<<>>} \cup {<<a>> : a \in Samples} \cup {<<a, b>> : a, b \in Samples}

Intervals == {[streams |-> sl] : sl \in StreamLists}

Records == UNION {[1..n -> Intervals] : n \in 0..MaxIntervals}

\* the records of the runs of main: no interval; one sender and one receiver
\* sample; a sender sample only; receiver and unknown samples only
RunRecords ==
    { <<>>,
      << [streams |-> <<SampleSender, SampleReceiver>>] >>,
      << [streams |-> <<SampleSender>>] >>,
      << [streams |-> <<SampleReceiverBare, SampleUnknown>>], [streams |-> <<>>] >> }

InputFiles ==
    {[kind |-> k, intervals |-> <<>>] :
        k \in {"missing", "malformed", "no_intervals", "scalar"}}
    \cup {[kind |-> "record", intervals |-> r] : r \in RunRecords}

RunProfiles ==
    {[DefaultProfile EXCEPT !.verbose_output = v,
                            !.track_sender_bytes = f[1],
                            !.track_receiver_bytes = f[2],
                            !.track_packet_loss = f[3],
                            !.track_jitter = f[4]] :
        v \in BOOLEAN, f \in [1..4 -> BOOLEAN]}

\* ------------------------------------------------------------------------
\* main and generate_ascii_graphs, step by step
\* ------------------------------------------------------------------------
Init ==
    /\ cfg \in RunProfiles
    /\ inputFile \in InputFiles
    /\ pc = "load"
    /\ RunFresh
    /\ EmptyDirectory
    /\ PostProcessorIdle

Say(tag, what) == log' = Append(log, <<tag, what>>)

Current == datasets[dataset_idx + 1]

\* IperfDataProcessor.__init__ -> _load_json_data, and main's handler
LoadJsonData ==
    /\ pc = "load"
    /\ LET res == LoadResult(inputFile)
       IN  IF res = "loaded"
           THEN /\ data' = inputFile.intervals
                /\ pc' = "extract"
                /\ UNCHANGED <<log, exitCode>>
           ELSE /\ Say(IF res = "unhandled" THEN "fatal_error" ELSE "error", res)
                /\ exitCode' = 1
                /\ pc' = "exited"
                /\ UNCHANGED data
    /\ UNCHANGED <<cfg, ppvars, inputFile, series, datasets, dataset_idx, script, stdout,
                   rendered, successful_graphs, disk, written, datafile, artifact,
                   engineCalls, engineFailed, prev>>

ExtractPerformanceMetrics ==
    /\ pc = "extract"
    /\ series' = ExtractMetrics(data)
    /\ pc' = "filter"
    /\ UNCHANGED <<cfg, ppvars, inputFile, data, datasets, dataset_idx, script, stdout,
                   rendered, successful_graphs, disk, written, datafile, artifact,
                   engineCalls, engineFailed, log, exitCode, prev>>

FilterDatasets ==
    /\ pc = "filter"
    /\ datasets' = Datasets(cfg)
    /\ successful_graphs' = 0
    /\ dataset_idx' = 0
    /\ pc' = "loop"
    /\ UNCHANGED <<cfg, ppvars, inputFile, data, series, script, stdout, rendered,
                   disk, written, datafile, artifact, engineCalls, engineFailed,
                   log, exitCode, prev>>

\* the head of the for loop: the next dataset, skipped when it has no data
NextDataset ==
    /\ pc = "loop"
    /\ dataset_idx < Len(datasets)
    /\ IF NoData(Current, series)
       THEN /\ IF cfg.verbose_output
               THEN Say("warning_no_data", Current)
               ELSE UNCHANGED log
            /\ dataset_idx' = dataset_idx + 1
            /\ pc' = "loop"
       ELSE /\ pc' = "write_data"
            /\ UNCHANGED <<dataset_idx, log>>
    /\ UNCHANGED <<cfg, ppvars, inputFile, data, series, datasets, script, stdout,
                   rendered, successful_graphs, disk, written, datafile, artifact,
                   engineCalls, engineFailed, exitCode, prev>>

WriteDataFile ==
    /\ pc = "write_data"
    /\ datafile' = [datafile EXCEPT
                       ![Current] = DataFileContent(XData(Current, series),
                                                    YData(Current, series))]
    /\ disk' = disk \cup {<<Current, "dat">>}
    /\ written' = written \cup {<<Current, "dat">>}
    /\ pc' = "gen_script"
    /\ UNCHANGED <<cfg, ppvars, inputFile, data, series, datasets, dataset_idx, script,
                   stdout, rendered, successful_graphs, artifact, engineCalls,
                   engineFailed, log, exitCode, prev>>

GenerateGnuplotScript ==
    /\ pc = "gen_script"
    /\ script' = GnuplotScript(Current, cfg)
    /\ pc' = "write_script"
    /\ UNCHANGED <<cfg, ppvars, inputFile, data, series, datasets, dataset_idx, stdout,
                   rendered, successful_graphs, disk, written, datafile, artifact,
                   engineCalls, engineFailed, log, exitCode, prev>>

\* _execute_gnuplot: the script file is written first
WriteScriptFile ==
    /\ pc = "write_script"
    /\ disk' = disk \cup {<<Current, "plt">>}
    /\ written' = written \cup {<<Current, "plt">>}
    /\ pc' = "run_engine"
    /\ UNCHANGED <<cfg, ppvars, inputFile, data, series, datasets, dataset_idx, script,
                   stdout, rendered, successful_graphs, datafile, artifact,
                   engineCalls, engineFailed, log, exitCode, prev>>

\* subprocess.run(["gnuplot", script_file], check=True) and the two handlers
RunEngine ==
    /\ pc = "run_engine"
    /\ engineCalls' = [engineCalls EXCEPT ![Current] = @ + 1]
    /\ \E outcome \in EngineOutcomes :
          IF outcome = "ok"
          THEN /\ stdout' = EngineOutput(script, datafile[Current])
               /\ pc' = "post_process"
               /\ UNCHANGED <<rendered, engineFailed, log, exitCode>>
          ELSE /\ engineFailed' = engineFailed \cup {Current}
               /\ UNCHANGED stdout
               /\ IF CaughtByExecute(outcome)
                  THEN /\ Say("error_gnuplot_" \o outcome, Current)
                       /\ rendered' = FALSE
                       /\ pc' = "tally"
                       /\ UNCHANGED exitCode
                  ELSE /\ Say("fatal_error", outcome)
                       /\ exitCode' = 1
                       /\ pc' = "exited"
                       /\ UNCHANGED rendered
    /\ UNCHANGED <<cfg, ppvars, inputFile, data, series, datasets, dataset_idx, script,
                   successful_graphs, disk, written, datafile, artifact, prev>>

PostProcessOutput ==
    /\ pc = "post_process"
    /\ stdout' = PostProcess(stdout, YLabelOf(Current), TimeSeconds, cfg)
    /\ pc' = "write_output"
    /\ UNCHANGED <<cfg, ppvars, inputFile, data, series, datasets, dataset_idx, script,
                   rendered, successful_graphs, disk, written, datafile, artifact,
                   engineCalls, engineFailed, log, exitCode, prev>>

WriteOutputFile ==
    /\ pc = "write_output"
    /\ artifact' = [artifact EXCEPT ![Current] = stdout]
    /\ disk' = disk \cup {<<Current, "txt">>}
    /\ written' = written \cup {<<Current, "txt">>}
    /\ stdout' = NoGrid
    /\ rendered' = TRUE
    /\ pc' = "tally"
    /\ UNCHANGED <<cfg, ppvars, inputFile, data, series, datasets, dataset_idx, script,
                   successful_graphs, datafile, engineCalls, engineFailed, log,
                   exitCode, prev>>

\* mutant: the count grows whether or not the chart was rendered
TallyAlways ==
    /\ pc = "tally"
    /\ successful_graphs' = successful_graphs + 1
    /\ IF cfg.verbose_output
       THEN Say(IF rendered THEN "graph_saved" ELSE "graph_failed", Current)
       ELSE UNCHANGED log
    /\ dataset_idx' = dataset_idx + 1
    /\ rendered' = FALSE
    /\ pc' = "loop"
    /\ UNCHANGED <<cfg, ppvars, inputFile, data, series, datasets, script, stdout,
                   disk, written, datafile, artifact, engineCalls, engineFailed,
                   exitCode, prev>>

\* the caller's if/else on the return value of _execute_gnuplot
Tally ==
    /\ pc = "tally"
    /\ successful_graphs' = IF rendered THEN successful_graphs + 1 ELSE successful_graphs
    /\ IF cfg.verbose_output
       THEN Say(IF rendered THEN "graph_saved" ELSE "graph_failed", Current)
       ELSE UNCHANGED log
    /\ dataset_idx' = dataset_idx + 1
    /\ rendered' = FALSE
    /\ pc' = "loop"
    /\ UNCHANGED <<cfg, ppvars, inputFile, data, series, datasets, script, stdout,
                   disk, written, datafile, artifact, engineCalls, engineFailed,
                   exitCode, prev>>

\* f"{successful_graphs}/{len(datasets)}" of the closing message
Summary(done, total) == ToString(done) \o "/" \o ToString(total)

\* the loop is over: the summary, and main returns
Report ==
    /\ pc = "loop"
    /\ dataset_idx >= Len(datasets)
    /\ IF cfg.verbose_output
       THEN Say("processing_complete", Summary(successful_graphs, Len(datasets)))
       ELSE UNCHANGED log
    /\ exitCode' = 0
    /\ pc' = "exited"
    /\ UNCHANGED <<cfg, ppvars, inputFile, data, series, datasets, dataset_idx, script,
                   stdout, rendered, successful_graphs, disk, written, datafile,
                   artifact, engineCalls, engineFailed, prev>>

TrackFlags ==
    {"track_sender_bytes", "track_receiver_bytes", "track_packet_loss", "track_jitter"}

\* the program is run again on the same input and output directory with one
\* more tracking flag switched off; the files of the first run stay on disk
RunAgain ==
    /\ pc = "exited"
    /\ exitCode = 0
    /\ ~prev.ran
    /\ \E f \in TrackFlags :
          /\ cfg[f]
          /\ cfg' = [cfg EXCEPT ![f] = FALSE]
    /\ prev' = [ran |-> TRUE, cfg |-> cfg, written |-> written,
                artifact |-> artifact, engineFailed |-> engineFailed]
    /\ pc' = "load"
    /\ data' = <<>>
    /\ series' = EmptySeries
    /\ datasets' = <<>>
    /\ dataset_idx' = 0
    /\ script' = NoScript
    /\ stdout' = NoGrid
    /\ rendered' = FALSE
    /\ successful_graphs' = 0
    /\ written' = {}
    /\ engineCalls' = [m \in MetricSet |-> 0]
    /\ engineFailed' = {}
    /\ log' = <<>>
    /\ exitCode' = -1
    /\ UNCHANGED <<ppvars, inputFile, disk, datafile, artifact>>

Next ==
    \/ LoadJsonData
    \/ ExtractPerformanceMetrics
    \/ FilterDatasets
    \/ NextDataset
    \/ WriteDataFile
    \/ GenerateGnuplotScript
    \/ WriteScriptFile
    \/ RunEngine
    \/ PostProcessOutput
    \/ WriteOutputFile
    \/ Tally
    \/ Report
    \/ RunAgain

Spec == Init /\ [][Next]_vars

\* ------------------------------------------------------------------------
\* extract_performance_metrics alone, on every record within the bounds
\* ------------------------------------------------------------------------
InitExtract ==
    /\ cfg = DefaultProfile
    /\ inputFile \in {[kind |-> "record", intervals |-> r] : r \in Records}
    /\ data = inputFile.intervals
    /\ pc = "extract"
    /\ series = EmptySeries
    /\ datasets = <<>> /\ dataset_idx = 0 /\ script = NoScript /\ stdout = NoGrid
    /\ rendered = FALSE /\ successful_graphs = 0 /\ written = {}
    /\ engineCalls = [m \in MetricSet |-> 0] /\ engineFailed = {}
    /\ log = <<>> /\ exitCode = -1
    /\ EmptyDirectory
    /\ PostProcessorIdle

SpecExtract == InitExtract /\ [][ExtractPerformanceMetrics]_vars

\* ========================================================================
\* Properties of extract_performance_metrics (checked under SpecExtract)
\* ========================================================================
\* the samples of the record whose direction flag is dir, by position
SamplesWith(dir) ==
    UNION {{<<i, j>> : j \in {k \in 1..Len(data[i].streams) :
                                  data[i].streams[k].sender = dir}} :
           i \in 1..Len(data)}

\* C1: the sender series are as long as the number of samples whose
\* direction flag is true; the receiver-bytes, packet-loss and jitter series
\* are as long as the number of samples whose flag is false; samples without
\* the flag are in no series.
C1_SeriesLengths ==
    pc = "filter" =>
        /\ Len(series.sender_times) = Cardinality(SamplesWith("true"))
        /\ Len(series.sender_bytes) = Cardinality(SamplesWith("true"))
        /\ Len(series.receiver_times) = Cardinality(SamplesWith("false"))
        /\ Len(series.receiver_bytes) = Cardinality(SamplesWith("false"))
        /\ Len(series.packet_loss) = Cardinality(SamplesWith("false"))
        /\ Len(series.jitter) = Cardinality(SamplesWith("false"))

C1_Witness ==
    /\ pc = "filter"
    /\ SamplesWith("true") # {} /\ SamplesWith("false") # {} /\ SamplesWith("absent") # {}
    /\ Len(series.sender_bytes) = Cardinality(SamplesWith("true"))
    /\ Len(series.jitter) = Cardinality(SamplesWith("false"))

\* the samples of the record in interval/stream order
RECURSIVE InOrder(_, _, _)
InOrder(rec, i, j) ==
    IF i > Len(rec) THEN <<>>
    ELSE IF j > Len(rec[i].streams) THEN InOrder(rec, i + 1, 1)
    ELSE <<rec[i].streams[j]>> \o InOrder(rec, i, j + 1)

RECURSIVE Only(_, _)
Only(ss, dir) ==
    IF ss = <<>> THEN <<>>
    ELSE IF Head(ss).sender = dir THEN <<Head(ss)>> \o Only(Tail(ss), dir)
    ELSE Only(Tail(ss), dir)

ReceiverSamples == Only(InOrder(data, 1, 1), "false")

SenderSamples == Only(InOrder(data, 1, 1), "true")

\* C16: for every index i the i-th entries of the receiver-bytes, packet-loss
\* and jitter series come from the i-th receiver sample of the record: its
\* end time, its byte count, its lost_percent or 0 when the field is absent,
\* its jitter_ms or 0 when absent; a missing field shortens no series; the
\* sender series hold the end time and byte count of the sender samples and
\* nothing else of them.
C16_SeriesPerSample ==
    pc = "filter" =>
        /\ Len(series.receiver_times) = Len(ReceiverSamples)
        /\ Len(series.receiver_bytes) = Len(ReceiverSamples)
        /\ Len(series.packet_loss) = Len(ReceiverSamples)
        /\ Len(series.jitter) = Len(ReceiverSamples)
        /\ \A i \in 1..Len(ReceiverSamples) :
              LET r == ReceiverSamples[i]
              IN  /\ series.receiver_times[i] = r.end
                  /\ series.receiver_bytes[i] = r.bytes
                  /\ series.packet_loss[i] = (IF r.has_lost THEN r.lost_percent ELSE 0)
                  /\ series.jitter[i] = (IF r.has_jitter THEN r.jitter_ms ELSE 0)
        /\ Len(series.sender_times) = Len(SenderSamples)
        /\ Len(series.sender_bytes) = Len(SenderSamples)
        /\ \A i \in 1..Len(SenderSamples) :
              /\ series.sender_times[i] = SenderSamples[i].end
              /\ series.sender_bytes[i] = SenderSamples[i].bytes

C16_Witness ==
    /\ pc = "filter"
    /\ data = << [streams |-> <<SampleSenderLossy, SampleReceiverBare>>],
                 [streams |-> <<SampleUnknown, SampleReceiver>>] >>
    /\ series.receiver_times = <<2, 1>>
    /\ series.packet_loss = <<0, 5>>
    /\ series.jitter = <<0, 23>>
    /\ series.sender_bytes = <<1100>>

\* ========================================================================
\* Properties of main / generate_ascii_graphs (checked under Spec)
\* ========================================================================
FlagName(m) ==
    CASE m = "senderBytes"   -> "track_sender_bytes"
      [] m = "receiverBytes" -> "track_receiver_bytes"
      [] m = "packetLoss"    -> "track_packet_loss"
      [] m = "jitter"        -> "track_jitter"

SeriesEmpty(m) == Len(YData(m, series)) = 0

\* the enabled metrics that have data
Renderable == {m \in MetricSet : cfg[FlagName(m)] /\ ~SeriesEmpty(m)}

\* the enabled metrics without data
EmptyEnabled == {m \in MetricSet : cfg[FlagName(m)] /\ SeriesEmpty(m)}

FilesWrittenFor(m) == {f \in written : f[1] = m}

TextWritten(w) == {m \in MetricSet : <<m, "txt">> \in w}

Printed(tag, what) == \E k \in 1..Len(log) : log[k] = <<tag, what>>

TimesPrinted(tag, what) == Cardinality({k \in 1..Len(log) : log[k] = <<tag, what>>})

InputLoaded == inputFile.kind = "record"

FatalInput == inputFile.kind \in {"missing", "malformed", "no_intervals", "scalar"}

RunOver == pc = "exited"

\* C7: an engine failure (executable not found, non-zero exit) skips that
\* metric only: the run is never aborted, it ends with status 0, and the
\* engine is invoked for every enabled metric that has data.
C7_FailureDoesNotAbort ==
    /\ (RunOver /\ InputLoaded) =>
          /\ exitCode = 0
          /\ \A m \in Renderable : engineCalls[m] = 1
    /\ \A m \in engineFailed : <<m, "txt">> \notin written
    /\ (rendered = FALSE /\ pc = "tally") => (Current \in engineFailed /\ exitCode = -1)

C7_Witness ==
    /\ RunOver /\ exitCode = 0
    /\ {"senderBytes", "packetLoss"} \subseteq engineFailed
    /\ engineCalls["receiverBytes"] = 1 /\ engineCalls["jitter"] = 1
    /\ <<"jitter", "txt">> \in written

\* C8: the exit status is 1 exactly when the input is fatal (file not found,
\* malformed JSON, no 'intervals' key, unhandled exception), and then an
\* error was printed; every other run ends with status 0, also when charts
\* failed to render.
C8_ExitStatus ==
    /\ RunOver =>
          /\ exitCode \in {0, 1}
          /\ exitCode = 1 <=> FatalInput
          /\ exitCode = 1 =>
                \E k \in 1..Len(log) : log[k][1] \in {"error", "fatal_error"}
    /\ ~RunOver => exitCode = -1

C8_Witness ==
    /\ RunOver /\ exitCode = 0
    /\ Renderable # {} /\ engineFailed = Renderable
    /\ successful_graphs = 0

C8_WitnessFatal ==
    /\ RunOver /\ exitCode = 1 /\ inputFile.kind = "scalar"

\* C9 (as claimed): under every configuration every enabled metric without
\* data gets a 'no data available' warning, the run does not fail and no
\* file is written for the metric.
C9_EmptySeriesWarned ==
    (RunOver /\ InputLoaded) =>
        /\ exitCode = 0
        /\ \A m \in EmptyEnabled :
              /\ Printed("warning_no_data", m)
              /\ FilesWrittenFor(m) = {}

\* C9 (amended): the warning is printed exactly when verbose_output is on
\* (once per metric); in every configuration the run does not fail, the
\* engine is not invoked and no file is written for the metric; a record
\* with no interval has four empty series and writes nothing.
C9_EmptySeriesSkipped ==
    (RunOver /\ InputLoaded) =>
        /\ exitCode = 0
        /\ \A m \in EmptyEnabled :
              /\ TimesPrinted("warning_no_data", m) = (IF cfg.verbose_output THEN 1 ELSE 0)
              /\ FilesWrittenFor(m) = {}
              /\ engineCalls[m] = 0
        /\ data = <<>> =>
              /\ \A m \in MetricSet : SeriesEmpty(m)
              /\ written = {}

C9_Witness ==
    /\ RunOver /\ InputLoaded /\ data = <<>>
    /\ cfg.verbose_output
    /\ EmptyEnabled = MetricSet
    /\ \A m \in MetricSet : Printed("warning_no_data", m)
    /\ written = {}

\* --- two runs that differ in one tracking flag ----------------------------
AllTracked(c) == \A m \in MetricSet : c[FlagName(m)]

\* both runs are over, the first had every flag on, the engine never failed
PairDone ==
    /\ RunOver /\ exitCode = 0
    /\ prev.ran /\ AllTracked(prev.cfg)
    /\ prev.engineFailed = {} /\ engineFailed = {}

DisabledMetric == CHOOSE m \in MetricSet : ~cfg[FlagName(m)]

OthersUntouched ==
    \A m \in MetricSet \ {DisabledMetric} :
        /\ m \in TextWritten(written) <=> m \in TextWritten(prev.written)
        /\ m \in TextWritten(written) => artifact[m] = prev.artifact[m]

\* C10 (as claimed): for every record, the run with one flag off writes
\* exactly one text artifact fewer than the run with all flags on, and the
\* artifacts of the other three metrics are the same.
C10_OneArtifactFewer ==
    PairDone =>
        /\ Cardinality(TextWritten(written)) = Cardinality(TextWritten(prev.written)) - 1
        /\ OthersUntouched

\* C10 (amended): the run with one flag off writes one text artifact fewer
\* when the metric of that flag has data and as many when it has none; the
\* artifacts of the other three metrics are the same.
C10_OneArtifactFewerIfData ==
    PairDone =>
        /\ Cardinality(TextWritten(written)) =
              Cardinality(TextWritten(prev.written))
                  - (IF SeriesEmpty(DisabledMetric) THEN 0 ELSE 1)
        /\ OthersUntouched

C10_Witness ==
    /\ PairDone
    /\ ~cfg.track_jitter
    /\ TextWritten(prev.written) = MetricSet
    /\ TextWritten(written) = MetricSet \ {"jitter"}
    /\ \A m \in MetricSet \ {"jitter"} : artifact[m] = prev.artifact[m] /\ artifact[m] # NoGrid

\* --- the order of the steps of a run -------------------------------------
\* the place of a metric in the fixed order of all_datasets
Position(m) ==
    CASE m = "senderBytes"   -> 1
      [] m = "receiverBytes" -> 2
      [] m = "packetLoss"    -> 3
      [] m = "jitter"        -> 4

\* a step of the metric has been taken in this run
Started(m) == FilesWrittenFor(m) # {} \/ engineCalls[m] > 0

\* the metric's text artifact is written, or the metric is marked failed
Finished(m) == <<m, "txt">> \in written \/ m \in engineFailed

InLoopBody ==
    pc \in {"write_data", "gen_script", "write_script", "run_engine",
            "post_process", "write_output"}

\* the text the artifact of m must hold: the engine's output for the script
\* and the data file of m, post-processed
ExpectedArtifact(m) ==
    PostProcess(EngineOutput([glyphs |-> <<cfg.plot_char_primary, cfg.plot_char_secondary>>,
                              title |-> TitleOf(m), y_label |-> YLabelOf(m),
                              data_file |-> <<m, "dat">>],
                             datafile[m]),
                YLabelOf(m), TimeSeconds, cfg)

\* C11: the metrics are processed one after another in the order
\* senderBytes, receiverBytes, packetLoss, jitter; for each metric the data
\* file is written before the script, the script before the engine is
\* invoked, the engine before the post-processed text is written; a metric
\* is finished (text written or marked failed) before any step of a later
\* metric is taken; the engine is invoked at most once per metric.
C11_SequentialPipeline ==
    /\ \A i, j \in 1..Len(datasets) :
          i < j => Position(datasets[i]) < Position(datasets[j])
    /\ \A m \in MetricSet :
          /\ engineCalls[m] <= 1
          /\ <<m, "plt">> \in written => <<m, "dat">> \in written
          /\ engineCalls[m] = 1 => <<m, "plt">> \in written
          /\ m \in engineFailed => engineCalls[m] = 1
          /\ <<m, "txt">> \in written =>
                (engineCalls[m] = 1 /\ m \notin engineFailed)
          /\ (Started(m) /\ ~Finished(m)) => (InLoopBody /\ m = Current)
    /\ \A m1, m2 \in MetricSet :
          (Position(m1) < Position(m2) /\ Started(m2)) =>
              (Finished(m1) \/ ~Started(m1))
    /\ (pc = "tally" /\ rendered) =>
          /\ <<Current, "txt">> \in written
          /\ artifact[Current] = ExpectedArtifact(Current)
    /\ InLoopBody =>
          /\ <<Current, "txt">> \notin written
          /\ pc \in {"post_process", "write_output"} => engineCalls[Current] = 1
          /\ pc \in {"write_data", "gen_script", "write_script", "run_engine"}
                => engineCalls[Current] = 0

C11_Witness ==
    /\ pc = "run_engine" /\ Current = "packetLoss"
    /\ <<"senderBytes", "txt">> \in written
    /\ "receiverBytes" \in engineFailed
    /\ <<"packetLoss", "plt">> \in written /\ engineCalls["packetLoss"] = 0
    /\ ~Started("jitter") /\ cfg.track_jitter

\* --- the success count ---------------------------------------------------
\* C18: at the end of generate_ascii_graphs the success count, and the count
\* the closing message reports, is the number of metrics whose text artifact
\* was written in this run; it is at most the number of enabled metrics with
\* data; a metric whose engine invocation failed has its data file and its
\* script file on disk, no text artifact written, and is not counted.
C18_SuccessCount ==
    /\ successful_graphs <= Cardinality(TextWritten(written))
    /\ (RunOver /\ InputLoaded) =>
          /\ successful_graphs = Cardinality(TextWritten(written))
          /\ successful_graphs <= Cardinality(Renderable)
          /\ successful_graphs = Cardinality(Renderable \ engineFailed)
          /\ cfg.verbose_output =>
                \E k \in 1..Len(log) :
                    /\ log[k][1] = "processing_complete"
                    /\ log[k][2] = ToString(Cardinality(TextWritten(written))) \o "/"
                                       \o ToString(Cardinality({m \in MetricSet : cfg[FlagName(m)]}))
    /\ \A m \in engineFailed :
          /\ {<<m, "dat">>, <<m, "plt">>} \subseteq written
          /\ {<<m, "dat">>, <<m, "plt">>} \subseteq disk
          /\ <<m, "txt">> \notin written

C18_Witness ==
    /\ RunOver /\ InputLoaded /\ cfg.verbose_output
    /\ Cardinality(Renderable) = 4
    /\ engineFailed = {"receiverBytes", "jitter"}
    /\ TextWritten(written) = {"senderBytes", "packetLoss"}
    /\ successful_graphs = 2
    /\ Printed("processing_complete", "2/4")

\* ========================================================================
\* Properties of the post-processor (checked under SpecPP)
\* ========================================================================
RawSubst == SubstPass(raw, cfg)

\* the rows the border pass has rewritten (0-based)
BorderRewritten ==
    IF first_y_line # -1 /\ last_y_line # -1 /\ typical_pipe_start # -1
    THEN {first_y_line, last_y_line}
    ELSE {}

ExpectedBorderRow(r) ==
    LET y == YValue(RawSubst[r + 1])
    IN  IF Len(y) >= typical_pipe_start
        THEN y \o <<" ">> \o Border(border_length)
        ELSE Rep(" ", typical_pipe_start - 1 - Len(y)) \o y \o <<" ">> \o Border(border_length)

\* C2: after border reconstruction, with the representative row's border
\* characters at columns C and C+L+1, each rewritten tick row is its label
\* right-aligned to end one column before C, a blank, and the border
\* '+', L times '-', '+' whose opening corner is at column C; a label of
\* length >= C starts at column 0 and is followed by a blank and the border.
C2_BorderAligned ==
    (ppc = "overlay" /\ border_length >= 0) =>
        \A r \in BorderRewritten :
            /\ lines[r + 1] = ExpectedBorderRow(r)
            /\ Len(YValue(RawSubst[r + 1])) < typical_pipe_start
                   => lines[r + 1][typical_pipe_start + 1] = "+"

\* the same statement for grids whose first and last tick rows differ
C2_BorderAlignedDistinct ==
    (ppc = "overlay" /\ border_length >= 0 /\ first_y_line # last_y_line) =>
        \A r \in BorderRewritten :
            /\ lines[r + 1] = ExpectedBorderRow(r)
            /\ Len(YValue(RawSubst[r + 1])) < typical_pipe_start
                   => lines[r + 1][typical_pipe_start + 1] = "+"

C2_SingleTickRow ==
    /\ ppc = "overlay" /\ border_length >= 0
    /\ first_y_line # -1 /\ first_y_line = last_y_line

\* --- vertical axis-title overlay ----------------------------------------
OverlayStart == MiddleStart(graph_start, graph_end, Len(y_label))

\* label positions whose assigned row exists in the grid
AssignedPositions ==
    {i \in 0..(Len(y_label) - 1) : 0 <= OverlayStart + i /\ OverlayStart + i < Len(raw)}

Unseparate(ch) == IF ch = "_" THEN " " ELSE ch

\* the prepended characters read top to bottom, separators turned to blanks
ReadBack ==
    IF AssignedPositions = {} THEN <<>>
    ELSE LET lo == SetMin(AssignedPositions)
         IN  [k \in 1..Cardinality(AssignedPositions) |->
                 Unseparate(lines[OverlayStart + lo + k][1])]

OverlayDone == ppc \in {"below", "done"} /\ OverlayEnabled(cfg)

\* C3 (as claimed): for every grid and label the characters read back from
\* the assigned rows are the y-axis label.
C3_LabelReconstructed == OverlayDone => ReadBack = y_label

AllAssignedInGrid ==
    /\ 0 <= OverlayStart
    /\ OverlayStart + Len(y_label) <= Len(raw)

\* C3 (amended): when every assigned row lies inside the grid and the label
\* holds no '_', the characters read back are the y-axis label.
C3_LabelReconstructedInGrid ==
    (OverlayDone /\ AllAssignedInGrid /\ ~HasChar(y_label, "_")) => ReadBack = y_label

C3_Witness ==
    /\ ppc = "done" /\ OverlayEnabled(cfg) /\ AllAssignedInGrid
    /\ HasChar(y_label, " ") /\ graph_start # -1
    /\ ReadBack = y_label

\* --- protected rows -------------------------------------------------------
ProtectedRows == {i \in 1..Len(raw) : IsProtected(raw[i])}

\* C4 (as claimed): every row that holds a protected phrase is the same in
\* the final output as in the raw input.
C4_ProtectedIdentical ==
    ppc = "done" => \A i \in ProtectedRows : i <= Len(lines) /\ lines[i] = raw[i]

OverlayTouches(row) ==
    /\ OverlayEnabled(cfg)
    /\ \/ graph_start <= row /\ row <= graph_end
       \/ OverlayStart <= row /\ row < OverlayStart + Len(y_label)

\* C4 (amended): glyph substitution and decoration stripping leave every
\* protected row as it was; in the final output a protected row is unchanged
\* unless border reconstruction rewrote it as a tick row or the overlay pass
\* prefixed it, and the overlay only adds two leading columns.
C4_ProtectedKeptBySubstitution ==
    /\ ppc = "border" => \A i \in ProtectedRows : lines[i] = raw[i]
    /\ ppc = "done" =>
          \A i \in ProtectedRows :
              (i - 1) \notin BorderRewritten =>
                  /\ i <= Len(lines)
                  /\ IF OverlayTouches(i - 1)
                     THEN SubSeq(lines[i], 3, Len(lines[i])) = raw[i]
                     ELSE lines[i] = raw[i]

C4_Witness ==
    /\ ppc = "done"
    /\ cfg.plot_char_primary # "*"
    /\ \E i \in ProtectedRows :
          /\ HasChar(raw[i], "*")
          /\ (i - 1) \notin BorderRewritten /\ ~OverlayTouches(i - 1)
          /\ lines[i] = raw[i]

\* --- glyph substitution -----------------------------------------------------
\* C5: after the substitution and stripping pass every position of a row
\* without protected phrase that held '*' holds the configured primary glyph
\* and every position that held 'A' holds the configured secondary glyph.
C5_GlyphsSubstituted ==
    ppc = "border" =>
        \A i \in (1..Len(raw)) \ ProtectedRows :
            \A j \in 1..Len(raw[i]) :
                /\ raw[i][j] = "*" => lines[i][j] = cfg.plot_char_primary
                /\ raw[i][j] = "A" => lines[i][j] = cfg.plot_char_secondary

\* --- no bounding box ------------------------------------------------------
\* C6: when no row qualifies as a box row the output is what substitution
\* and stripping produced, plus the optional below-chart block.
C6_NoBoxNoRewrite ==
    (ppc = "done" /\ graph_start = -1) =>
        lines = BelowPass(RawSubst, x_label, y_label, cfg)

\* --- border rows after the overlay ----------------------------------------
TwoTickRows == first_y_line # -1 /\ first_y_line # last_y_line

\* C13: in the final output with the overlay enabled, the opening corner of
\* each rewritten tick row is in the column of the first '|' of the box's
\* first row and the closing corner in the column of its last '|'.  Stated
\* for grids whose first and last tick rows are different rows, where each
\* tick row is rewritten once, and for tick labels short enough to be
\* right-aligned before the border.
C13_BordersAlignedAfterOverlay ==
    (ppc = "done" /\ OverlayEnabled(cfg) /\ graph_start # -1 /\ TwoTickRows) =>
        \A r \in BorderRewritten :
            Len(YValue(RawSubst[r + 1])) < typical_pipe_start =>
                /\ Find(lines[r + 1], "+") = Find(lines[graph_start + 1], "|")
                /\ RFind(lines[r + 1], "+") = RFind(lines[graph_start + 1], "|")

\* --- the rows the overlay changes -------------------------------------------
Separated(ch) == IF ch = " " THEN "_" ELSE ch

\* the row (0-based) that label character i (0-based) is assigned to
LabelRow(i) ==
    graph_start + ((graph_end - graph_start) \div 2) - (Len(y_label) \div 2) + i

\* the label positions assigned to row r
LabelAt(r) == {i \in 0..(Len(y_label) - 1) : LabelRow(i) = r}

OverlayStepAsClaimed ==
    (ppc = "overlay" /\ OverlayEnabled(cfg) /\ graph_start # -1) =>
        /\ Len(lines') = Len(lines)
        /\ \A r \in 0..(Len(lines) - 1) :
              /\ \A i \in LabelAt(r) :
                    lines'[r + 1] = <<Separated(y_label[i + 1]), " ">> \o lines[r + 1]
              /\ (LabelAt(r) = {} /\ graph_start <= r /\ r <= graph_end) =>
                    lines'[r + 1] = <<" ", " ">> \o lines[r + 1]
              /\ (graph_start <= r /\ r <= graph_end) =>
                    Len(lines'[r + 1]) = Len(lines[r + 1]) + 2
              /\ (LabelAt(r) = {} /\ (r < graph_start \/ r > graph_end)) =>
                    lines'[r + 1] = lines[r + 1]

\* C15: with a box on rows S..E and the overlay enabled for a label of n
\* characters, the row S + (E-S) div 2 - n div 2 + i gets label character i
\* (a blank of the label as '_') and a blank in front; every other row of
\* S..E gets two blanks in front, so every row of S..E is two columns longer;
\* every row outside S..E that gets no label character is unchanged.
C15_OverlayRows == [][OverlayStepAsClaimed]_vars

C15_Witness ==
    /\ ppc = "below" /\ OverlayEnabled(cfg)
    /\ graph_start = 1 /\ graph_end = 2 /\ y_label = <<"k", "B">>
    /\ SubSeq(lines[1], 1, 2) = <<"k", " ">>
    /\ SubSeq(lines[2], 1, 2) = <<"B", " ">>
    /\ SubSeq(lines[3], 1, 2) = <<" ", " ">>
    /\ Len(lines[3]) = Len(raw[3]) + 2

\* --- the representative row of the box --------------------------------------
IsLongPipeRow(row) == Len(row) > MinBoxLen /\ \E k \in 1..Len(row) : row[k] = "|"

PipeColumns(row) == {k - 1 : k \in {j \in 1..Len(row) : row[j] = "|"}}

BorderPassDone == ppc \in {"overlay", "below", "done"}

\* C19: when a box is detected, graph_start <= graph_end, graph_start is the
\* first row of the raw grid that qualifies as a box row, that row still
\* holds '|' after substitution and stripping, the two border columns are
\* its first and last '|', and border_length = last - first - 1: the
\* fallback length is not used.
C19_RepresentativeRow ==
    /\ (ppc # "detect" /\ graph_start # -1) =>
          /\ 0 <= graph_start /\ graph_start <= graph_end /\ graph_end < Len(raw)
          /\ IsLongPipeRow(raw[graph_start + 1])
          /\ \A r \in 0..(graph_start - 1) : ~IsLongPipeRow(raw[r + 1])
    /\ (ppc # "detect" /\ graph_start = -1) =>
          \A r \in 0..(Len(raw) - 1) : ~IsLongPipeRow(raw[r + 1])
    /\ (BorderPassDone /\ graph_start # -1) =>
          LET cols == PipeColumns(RawSubst[graph_start + 1])
          IN  /\ cols # {}
              /\ typical_pipe_start = SetMin(cols)
              /\ typical_pipe_end = SetMax(cols)
              /\ border_length = typical_pipe_end - typical_pipe_start - 1
              /\ border_length # FallbackBorderLength
    /\ (BorderPassDone /\ graph_start = -1) => border_length = -1

C19_Witness ==
    /\ ppc = "overlay" /\ graph_start = 1 /\ graph_end = 2
    /\ raw[2] = RowBoxTitle /\ raw[3] = RowBox
    /\ typical_pipe_start = 2 /\ typical_pipe_end = 51 /\ border_length = 48

\* --- rewriting the same row twice -----------------------------------------
\* C17: when the grid holds exactly one tick row, the row after border
\* reconstruction is what a single rewrite gives: the numeric label once,
\* and one border '+', border_length times '-', '+'.
C17_RewriteIdempotent ==
    (ppc = "overlay" /\ first_y_line # -1 /\ first_y_line = last_y_line
         /\ typical_pipe_start # -1) =>
        /\ lines[first_y_line + 1] = ExpectedBorderRow(first_y_line)
        /\ Count(lines[first_y_line + 1], "+") = 2
        /\ Count(lines[first_y_line + 1], "-") = border_length

\* ========================================================================
\* Properties of the post-processor on grids with rulers and decoration
\* rows (checked under SpecPPAxis)
\* ========================================================================
\* --- below-chart metadata -------------------------------------------------
WhitespaceOnly(row) == \A k \in 1..Len(row) : row[k] = " "

\* the number of rows left when the trailing whitespace-only rows are removed
KeptRows(ls) ==
    SetMax({0} \cup {k \in 1..Len(ls) : ~WhitespaceOnly(ls[k])})

AxisInfo(name, label) == <<name, " ", "A", "x", "i", "s", ":", " ">> \o label

\* what the below-chart step does to the grid
BelowStepAsClaimed ==
    ppc = "below" =>
        IF cfg.show_axis_info_below
        THEN lines' = SubSeq(lines, 1, KeptRows(lines))
                          \o << <<>>, AxisInfo("X", x_label), AxisInfo("Y", y_label) >>
        ELSE lines' = lines

RECURSIVE WordEnd(_, _)
WordEnd(row, i) == IF i <= Len(row) /\ row[i] # " " THEN WordEnd(row, i + 1) ELSE i

RECURSIVE Words(_)
Words(row) ==
    LET a == SkipWhile(row, 1, {" "})
        b == WordEnd(row, a)
    IN  IF a > Len(row) THEN <<>>
        ELSE <<SubSeq(row, a, b - 1)>> \o Words(SubSeq(row, b, Len(row)))

\* digits, an optional fraction, an optional exponent: 0, 10, 0.5, 1e+06
IsNumber(w) ==
    LET b == SkipWhile(w, 1, Digits)
        c == IF b <= Len(w) /\ w[b] = "." THEN SkipWhile(w, b + 1, Digits) ELSE b
        d == IF c <= Len(w) /\ w[c] = "e"
             THEN IF c + 1 <= Len(w) /\ w[c + 1] \in {"+", "-"} THEN c + 2 ELSE c + 1
             ELSE c
        f == IF d > c THEN SkipWhile(w, d, Digits) ELSE c
    IN  /\ b > 1
        /\ (c > b => c > b + 1)
        /\ (d > c => f > d)
        /\ f = Len(w) + 1

\* a multi-number horizontal scale: three or more numbers and nothing else
IsRuler(row) ==
    LET ws == Words(row)
    IN  Len(ws) >= 3 /\ \A k \in 1..Len(ws) : IsNumber(ws[k])

RulerRows == {r \in 0..(Len(raw) - 1) : IsRuler(raw[r + 1])}

\* the scanned text of a chosen row begins with a digit and is scientific
\* notation or has at most two embedded spaces
LooksLikeTick(row) ==
    LET t == Strip(row)
    IN  /\ t # <<>> /\ t[1] \in Digits
        /\ \/ \E k \in 1..(Len(t) - 1) : t[k] = "e" /\ t[k + 1] \in {" ", "+", "-"}
           \/ Cardinality({k \in 1..Len(t) : t[k] = " "}) <= 2

\* C14: a row that is an x-axis ruler (three or more whitespace-separated
\* numbers) is never the first or the last tick row and is not replaced by
\* a border row; the rows chosen begin with a digit and are scientific
\* notation or have at most two embedded spaces.
C14_RulerNeverTick ==
    (ppc = "overlay" /\ graph_start # -1) =>
        /\ \A r \in RulerRows :
              /\ r # first_y_line /\ r # last_y_line
              /\ lines[r + 1] = RawSubst[r + 1]
        /\ \A r \in {first_y_line, last_y_line} \ {-1} : LooksLikeTick(RawSubst[r + 1])

\* the second half of the claim alone: what the chosen rows look like
C14_ChosenRowsLookLikeTicks ==
    (ppc = "overlay" /\ graph_start # -1) =>
        \A r \in {first_y_line, last_y_line} \ {-1} : LooksLikeTick(RawSubst[r + 1])

\* rulers with many blanks, or with three integers, are not chosen
C14_WideRulerSkipped ==
    (ppc = "overlay" /\ graph_start # -1) =>
        \A r \in 0..(Len(raw) - 1) :
            raw[r + 1] \in {RowRuler, RowRulerTight} =>
                (r # first_y_line /\ r # last_y_line /\ lines[r + 1] = RawSubst[r + 1])

====
